---- MODULE Spec2Model ----
(***************************************************************************)
(* A model of the three puzzle programs of the repository:                 *)
(*   day1  calorie groups   (Elf, ElfGroup, main)                          *)
(*   day2  rock-paper-scissors (Choice, ChoiceFight, StrategyGuide, main)  *)
(*   day3  rucksacks        (Priorities, Container, Rucksack,              *)
(*                           RucksackGroup, main)                          *)
(* Every program is single-threaded.  The input file of a main is the      *)
(* environment: each turn of its line loop receives the next line, or the  *)
(* end of the file.  An Option is a sequence of length 0 (None) or 1       *)
(* (Some).  A char is its code point; a String or a Vec is a sequence.     *)
(* The files are readable (a line that cannot be read is skipped by every  *)
(* loop) and ASCII.  The u64 sums stay far below 2^64 within the bounds, so *)
(* they are plain integers; the one narrowing cast (as u8) is kept.        *)
(***************************************************************************)
EXTENDS Integers, Sequences, FiniteSets

VARIABLES
    \* ---- day1
    elves,              \* ElfGroup.0 : Vec<Elf>, an Elf is [id, food_carried]
    cur_food_carried,   \* main: Vec<CalorieValue> of the group being read
    read1,              \* the lines main has consumed from elf_list.txt
    pc1,                \* "loop" | "ok" | "err_parse" | "err_empty" ; "api" in SpecElfGroup
    chad_elf,           \* Option<&Elf> last returned by elf_with_most_calories
    top_3,              \* Option of the value last returned by top_3_elves_calories
    \* ---- day2
    guide_step1,        \* StrategyGuide.0 : Vec<ChoiceFight>, a fight is [opponent, me]
    guide_step2,        \* the guide of the second reading of the file
    strategy_line,      \* main: the line of the current turn, split at " "
    pc2,                \* "loop" | "done" | "err_parse" | "panic"
    result_step1,       \* Option<MatchResult> of guide_step1.points_scored()
    result_step2,       \* Option<MatchResult> of guide_step2.points_scored()
    \* ---- day3
    priorities,         \* Option<Priorities> : the [char; 52], once constructed
    ch,                 \* the char given to priority_for_char
    priority,           \* Option of what priority_for_char(ch) did: [panic, value]
    lines3,             \* three strings given to Rucksack::new_from_str
    trio,               \* the rucksacks self, two, three built from lines3
    overlap,            \* Option<Container> of self.common_items()
    badge,              \* Option<Container> of self.common_items_with_group(two, three)
    rucksack_group,     \* RucksackGroup.0 : Vec<Rucksack>, a Rucksack is [c1, c2]
    step1,              \* Option of cumulated_priority_sum's value
    step2,              \* Option of group_badge_priority_sum's value
    pc3                 \* where the day3 program is

vars1 == <<elves, cur_food_carried, read1, pc1, chad_elf, top_3>>

vars2 == <<guide_step1, guide_step2, strategy_line, pc2, result_step1, result_step2>>

vars3 == <<priorities, ch, priority, lines3, trio, overlap, badge, rucksack_group,
           step1, step2, pc3>>

vars == <<vars1, vars2, vars3>>

(***************************************************************************)
(* Generic helpers                                                          *)
(***************************************************************************)
None == <<>>

Some(x) == <<x>>

RECURSIVE SumSeq(_)
SumSeq(s) == IF s = <<>> THEN 0 ELSE Head(s) + SumSeq(Tail(s))

\* Iterator::take(n)
Take(s, n) == SubSeq(s, 1, IF Len(s) < n THEN Len(s) ELSE n)

\* All sequences over S of length at most n
SeqsUpTo(S, n) == UNION {[1..k -> S] : k \in 0..n}

(***************************************************************************)
(* The programs are separate processes: while one runs, the others' state   *)
(* is idle.                                                                 *)
(***************************************************************************)
Idle1 ==
    /\ elves = <<>>
    /\ cur_food_carried = <<>>
    /\ read1 = <<>>
    /\ pc1 = "idle"
    /\ chad_elf = None
    /\ top_3 = None

Idle2 ==
    /\ guide_step1 = <<>>
    /\ guide_step2 = <<>>
    /\ strategy_line = <<>>
    /\ pc2 = "idle"
    /\ result_step1 = None
    /\ result_step2 = None

Idle3 ==
    /\ priorities = None
    /\ ch = 0
    /\ priority = None
    /\ lines3 = <<>>
    /\ trio = <<>>
    /\ overlap = None
    /\ badge = None
    /\ rucksack_group = <<>>
    /\ step1 = None
    /\ step2 = None
    /\ pc3 = "idle"

(***************************************************************************)
(* day1: bounds                                                             *)
(***************************************************************************)
\* SpecElfGroup: number of add_elf calls, Food items in the whole group,
\* largest calorie value of one Food
MaxElves == 4

MaxFood == 4

MaxCalorie == 2

\* SpecDay1Main: lines in the file, chars in a line
MaxLines1 == 3

MaxLineLen1 == 2

\* The chars a line of elf_list.txt is made of in the model
LineChars1 == {"1", "2", "x"}

Lines1 == SeqsUpTo(LineChars1, MaxLineLen1)

CalorieValues == 1..MaxCalorie

(***************************************************************************)
(* day1: Food, Elf, ElfGroup                                                *)
(***************************************************************************)
\* Elf::new ; a Food is its calorie_value
Elf_new(id, food) == [id |-> id, food_carried |-> food]

\* Elf::total_calories_carried : fold(0, acc + food.calorie_value)
total_calories_carried(elf) == SumSeq(elf.food_carried)

\* ElfGroup::add_elf : new_id = len + 1, push
add_elf(group, food) == Append(group, Elf_new(Len(group) + 1, food))

\* Iterator::max_by_key over total_calories_carried: of several maxima the LAST
RECURSIVE MaxByKey(_, _)
MaxByKey(best, rest) ==
    IF rest = <<>> THEN best
    ELSE MaxByKey(IF total_calories_carried(Head(rest)) >= total_calories_carried(best)
                  THEN Head(rest) ELSE best,
                  Tail(rest))

\* Mutant of elf_with_most_calories: the first elf is returned, the totals are
\* not compared
elf_with_most_calories_first(group) ==
    IF group = <<>> THEN None
    ELSE Some(Head(group))

\* ElfGroup::elf_with_most_calories
elf_with_most_calories(group) ==
    IF group = <<>> THEN None
    ELSE Some(MaxByKey(Head(group), Tail(group)))

\* Insert x into a descending sequence, after the elements equal to it (stable)
RECURSIVE InsertDesc(_, _)
InsertDesc(x, s) ==
    IF s = <<>> THEN <<x>>
    ELSE IF Head(s) >= x THEN <<Head(s)>> \o InsertDesc(x, Tail(s))
    ELSE <<x>> \o s

\* slice::sort_by_key(|cal| Reverse(*cal)) : stable, descending
RECURSIVE SortDesc(_)
SortDesc(s) ==
    IF s = <<>> THEN <<>>
    ELSE InsertDesc(s[Len(s)], SortDesc(SubSeq(s, 1, Len(s) - 1)))

\* Mutant of top_3_elves_calories: the sort key is not reversed (ascending)
top_3_elves_calories_ascending(group) ==
    LET calories == [i \in 1..Len(group) |-> total_calories_carried(group[i])]
        n == Len(calories)
        sorted == SortDesc(calories)
    IN  SumSeq(Take([i \in 1..n |-> sorted[n + 1 - i]], 3))

\* ElfGroup::top_3_elves_calories
top_3_elves_calories(group) ==
    LET calories == [i \in 1..Len(group) |-> total_calories_carried(group[i])]
    IN  SumSeq(Take(SortDesc(calories), 3))

\* Number of Food values the group owns (bounds the model only)
FoodCount(group) == SumSeq([i \in 1..Len(group) |-> Len(group[i].food_carried)])

(***************************************************************************)
(* day1: the ElfGroup as its callers use it (add_elf chained, then queried) *)
(***************************************************************************)
InitElfGroup ==
    /\ elves = <<>>
    /\ cur_food_carried = <<>>
    /\ read1 = <<>>
    /\ pc1 = "api"
    /\ chad_elf = None
    /\ top_3 = None
    /\ Idle2
    /\ Idle3

\* elves.add_elf(food): needs &mut self, so no earlier &Elf is still held
AddElf(food) ==
    /\ pc1 = "api"
    /\ Len(elves) < MaxElves
    /\ FoodCount(elves) + Len(food) <= MaxFood
    /\ elves' = add_elf(elves, food)
    /\ chad_elf' = None
    /\ top_3' = None
    /\ UNCHANGED <<cur_food_carried, read1, pc1, vars2, vars3>>

CallElfWithMostCalories ==
    /\ pc1 = "api"
    /\ pc1' = "most"
    /\ chad_elf' = elf_with_most_calories(elves)
    /\ UNCHANGED <<elves, cur_food_carried, read1, top_3, vars2, vars3>>

CallTop3ElvesCalories ==
    /\ pc1 = "most"
    /\ pc1' = "top3"
    /\ top_3' = Some(top_3_elves_calories(elves))
    /\ UNCHANGED <<elves, cur_food_carried, read1, chad_elf, vars2, vars3>>

\* the caller goes on building the group
Resume ==
    /\ pc1 = "top3"
    /\ pc1' = "api"
    /\ chad_elf' = None
    /\ top_3' = None
    /\ UNCHANGED <<elves, cur_food_carried, read1, vars2, vars3>>

NextElfGroup ==
    \/ \E food \in SeqsUpTo(CalorieValues, MaxFood - FoodCount(elves)) : AddElf(food)
    \/ CallElfWithMostCalories
    \/ CallTop3ElvesCalories
    \/ Resume

SpecElfGroup == InitElfGroup /\ [][NextElfGroup]_vars

(***************************************************************************)
(* day1: main                                                               *)
(***************************************************************************)
Digits == {"0", "1", "2", "3", "4", "5", "6", "7", "8", "9"}

DigitValue(c) ==
    CASE c = "0" -> 0 [] c = "1" -> 1 [] c = "2" -> 2 [] c = "3" -> 3 [] c = "4" -> 4
      [] c = "5" -> 5 [] c = "6" -> 6 [] c = "7" -> 7 [] c = "8" -> 8 [] c = "9" -> 9

RECURSIVE DecimalValue(_, _)
DecimalValue(acc, s) ==
    IF s = <<>> THEN acc ELSE DecimalValue(acc * 10 + DigitValue(Head(s)), Tail(s))

\* str::parse::<u64>() : Some(value), or None for the Err.  An optional leading
\* '+', then one or more decimal digits.  (The overflow error needs more than
\* 19 digits, beyond MaxLineLen1.)
parse_u64(s) ==
    LET digits == IF s # <<>> /\ Head(s) = "+" THEN Tail(s) ELSE s
    IN  IF digits # <<>> /\ \A i \in 1..Len(digits) : digits[i] \in Digits
        THEN Some(DecimalValue(0, digits))
        ELSE None

InitDay1Main ==
    /\ elves = <<>>
    /\ cur_food_carried = <<>>
    /\ read1 = <<>>
    /\ pc1 = "loop"
    /\ chad_elf = None
    /\ top_3 = None
    /\ Idle2
    /\ Idle3

\* one turn of `for line in lines`
ReadLine1(line) ==
    /\ pc1 = "loop"
    /\ Len(read1) < MaxLines1
    /\ read1' = Append(read1, line)
    /\ IF line = <<>>
       THEN /\ elves' = add_elf(elves, cur_food_carried)
            /\ cur_food_carried' = <<>>
            /\ pc1' = pc1
       ELSE IF parse_u64(line) # None
       THEN /\ cur_food_carried' = Append(cur_food_carried, parse_u64(line)[1])
            /\ UNCHANGED <<elves, pc1>>
       ELSE /\ pc1' = "err_parse"
            /\ UNCHANGED <<elves, cur_food_carried>>
    /\ UNCHANGED <<chad_elf, top_3, vars2, vars3>>

\* the iterator is exhausted: the rest of main
EndOfFile1 ==
    /\ pc1 = "loop"
    /\ chad_elf' = elf_with_most_calories(elves)
    /\ IF chad_elf' = None
       THEN /\ pc1' = "err_empty"
            /\ top_3' = None
       ELSE /\ pc1' = "ok"
            /\ top_3' = Some(top_3_elves_calories(elves))
    /\ UNCHANGED <<elves, cur_food_carried, read1, vars2, vars3>>

NextDay1Main ==
    \/ \E line \in Lines1 : ReadLine1(line)
    \/ EndOfFile1

SpecDay1Main == InitDay1Main /\ [][NextDay1Main]_vars

(***************************************************************************)
(* day1: properties                                                         *)
(***************************************************************************)
RECURSIVE SumOver(_, _)
SumOver(f, S) ==
    IF S = {} THEN 0
    ELSE LET x == CHOOSE y \in S : TRUE IN f[x] + SumOver(f, S \ {x})

Totals(group) == [i \in 1..Len(group) |-> total_calories_carried(group[i])]

Min(a, b) == IF a < b THEN a ELSE b

\* The sums of the totals of every choice of k elves of the group
SumsOfChoices(group, k) ==
    {SumOver(Totals(group), S) : S \in {T \in SUBSET (1..Len(group)) : Cardinality(T) = k}}

\* The groups a line sequence denotes: a blank line ends the current group, and
\* the numbers after the last blank line are a group too
RECURSIVE GroupsOf(_, _)
GroupsOf(lines, cur) ==
    IF lines = <<>> THEN (IF cur = <<>> THEN <<>> ELSE <<cur>>)
    ELSE IF Head(lines) = <<>> THEN <<cur>> \o GroupsOf(Tail(lines), <<>>)
    ELSE GroupsOf(Tail(lines), Append(cur, parse_u64(Head(lines))[1]))

\* The ElfGroup of a sequence of groups: one add_elf per group, in order
RECURSIVE ElvesOf(_, _)
ElvesOf(group, groups) ==
    IF groups = <<>> THEN group
    ELSE ElvesOf(add_elf(group, Head(groups)), Tail(groups))

AfterLoop1 == pc1 \in {"ok", "err_empty"}

\* C3: after every line has been consumed the ElfGroup holds one Elf per group
\* of the input; when the last line is a number, the numbers after the last
\* blank line are the food of the last Elf, and the queries count that Elf.
C3_TrailingGroupCaptured ==
    (AfterLoop1 /\ read1 # <<>> /\ read1[Len(read1)] # <<>>) =>
        LET expected == ElvesOf(<<>>, GroupsOf(read1, <<>>))
        IN  /\ elves = expected
            /\ chad_elf = elf_with_most_calories(expected)
            /\ top_3 = Some(top_3_elves_calories(expected))

\* C8: top_3_elves_calories is the largest sum of min(3, n) of the n per-elf
\* totals: the three largest totals, equal totals counted separately, all of
\* them when fewer than three elves exist, 0 for the empty group.
C8_Top3SumOfLargest ==
    pc1 = "top3" =>
        /\ top_3 # None
        /\ LET sums == SumsOfChoices(elves, Min(3, Len(elves)))
           IN  /\ top_3[1] \in sums
               /\ \A x \in sums : x <= top_3[1]
        /\ Len(elves) < 3 => top_3[1] = SumSeq(Totals(elves))
        /\ elves = <<>> => top_3[1] = 0

\* C8 witness: four elves were added, and a non-zero total is left out of the sum
C8_Witness ==
    /\ pc1 = "top3"
    /\ Len(elves) = 4
    /\ top_3[1] < SumSeq(Totals(elves))
    /\ \E i, j \in 1..4 : i # j /\ Totals(elves)[i] = Totals(elves)[j]

\* C9: elf_with_most_calories is None exactly when no elf was added; otherwise
\* it is an elf of the group whose total is >= every total, and every elf's id
\* is the number of add_elf calls made up to and including its own.
C9_MostCaloriesOrEmpty ==
    /\ \A i \in 1..Len(elves) : elves[i].id = i
    /\ pc1 \in {"most", "top3"} =>
        /\ chad_elf = None <=> elves = <<>>
        /\ chad_elf # None =>
            /\ chad_elf[1].id \in 1..Len(elves)
            /\ elves[chad_elf[1].id] = chad_elf[1]
            /\ \A j \in 1..Len(elves) :
                 total_calories_carried(elves[j]) <= total_calories_carried(chad_elf[1])

\* C9 witness: the elf returned is neither the first nor the last of three or
\* more, and carries strictly more than both
C9_Witness ==
    /\ pc1 = "most"
    /\ Len(elves) >= 3
    /\ chad_elf # None
    /\ chad_elf[1].id = 2
    /\ total_calories_carried(elves[1]) < total_calories_carried(chad_elf[1])
    /\ total_calories_carried(elves[3]) < total_calories_carried(chad_elf[1])

(***************************************************************************)
(* day2: bounds and input                                                   *)
(***************************************************************************)
\* fights in the strategy guide
MaxFights == 3

\* Lines of rps_strategy_guide.txt, as split at " ": the empty line, the lines
\* of the grammar, a line the parser accepts outside the grammar, and
\* malformed lines (one token, a choice as directive, unknown tokens)
Lines2 ==
    {<<>>}
    \cup {<<o, m>> : o \in {"A", "B", "C"}, m \in {"X", "Y", "Z"}}
    \cup {<<"X", "Y">>}
    \cup {<<"A">>, <<"A", "B">>, <<"?", "X">>, <<"A", "?">>}

(***************************************************************************)
(* day2: Choice, ChoiceFightOutcome, ChoiceFight, StrategyGuide             *)
(***************************************************************************)
Choices == {"Rock", "Paper", "Scissors"}

Outcomes == {"Loss", "Draw", "Win"}

\* <Choice as FromStr>::from_str (strum::EnumString) : Some(choice) or None
Choice_from_str(t) ==
    CASE t \in {"A", "X"} -> Some("Rock")
      [] t \in {"B", "Y"} -> Some("Paper")
      [] t \in {"C", "Z"} -> Some("Scissors")
      [] OTHER -> None

\* <ChoiceFightOutcome as FromStr>::from_str
Outcome_from_str(t) ==
    CASE t = "X" -> Some("Loss")
      [] t = "Y" -> Some("Draw")
      [] t = "Z" -> Some("Win")
      [] OTHER -> None

\* Mutant of wins_against: the Rock arm names the wrong choice
wins_against_rock_paper(self, other) ==
    CASE self = "Rock" -> other = "Paper"
      [] self = "Paper" -> other = "Rock"
      [] self = "Scissors" -> other = "Paper"

\* Choice::wins_against
wins_against(self, other) ==
    CASE self = "Rock" -> other = "Scissors"
      [] self = "Paper" -> other = "Rock"
      [] self = "Scissors" -> other = "Paper"

\* Mutant of solve_outcome: the Loss and Win arms are exchanged
solve_outcome_exchanged(self, desired_outcome) ==
    CASE desired_outcome = "Win" ->
            (CASE self = "Rock" -> "Scissors"
               [] self = "Paper" -> "Rock"
               [] self = "Scissors" -> "Paper")
      [] desired_outcome = "Draw" -> self
      [] desired_outcome = "Loss" ->
            (CASE self = "Rock" -> "Paper"
               [] self = "Paper" -> "Scissors"
               [] self = "Scissors" -> "Rock")

\* Choice::solve_outcome
solve_outcome(self, desired_outcome) ==
    CASE desired_outcome = "Loss" ->
            (CASE self = "Rock" -> "Scissors"
               [] self = "Paper" -> "Rock"
               [] self = "Scissors" -> "Paper")
      [] desired_outcome = "Draw" -> self
      [] desired_outcome = "Win" ->
            (CASE self = "Rock" -> "Paper"
               [] self = "Paper" -> "Scissors"
               [] self = "Scissors" -> "Rock")

\* Choice::points : the discriminant
Choice_points(self) ==
    CASE self = "Rock" -> 1 [] self = "Paper" -> 2 [] self = "Scissors" -> 3

\* ChoiceFightOutcome::points : the discriminant
Outcome_points(self) ==
    CASE self = "Loss" -> 0 [] self = "Draw" -> 3 [] self = "Win" -> 6

ChoiceFight(opponent, me) == [opponent |-> opponent, me |-> me]

\* ChoiceFight::outcome
outcome(fight) ==
    IF fight.opponent = fight.me THEN "Draw"
    ELSE IF wins_against(fight.me, fight.opponent) THEN "Win"
    ELSE "Loss"

\* Mutant of ScoreFight: the Loss arm adds the points of the outcome it matched
\* (Loss, 0), as the other two arms do, instead of those of Win
ScoreFight_loss_points(result, fight) ==
    LET o == outcome(fight)
        points_to_add_me ==
            Choice_points(fight.me)
            + (IF o \in {"Draw", "Win"} THEN Outcome_points(o) ELSE 0)
        points_to_add_opponent ==
            Choice_points(fight.opponent)
            + (IF o \in {"Loss", "Draw"} THEN Outcome_points(o) ELSE 0)
    IN  [opponent |-> result.opponent + points_to_add_opponent,
         me |-> result.me + points_to_add_me]

\* the closure folded by points_scored
ScoreFight(result, fight) ==
    LET o == outcome(fight)
        points_to_add_me ==
            Choice_points(fight.me)
            + (IF o \in {"Draw", "Win"} THEN Outcome_points(o) ELSE 0)
        points_to_add_opponent ==
            Choice_points(fight.opponent)
            + (CASE o = "Loss" -> Outcome_points("Win")
                 [] o = "Draw" -> Outcome_points(o)
                 [] o = "Win" -> 0)
    IN  [opponent |-> result.opponent + points_to_add_opponent,
         me |-> result.me + points_to_add_me]

RECURSIVE FoldFights(_, _)
FoldFights(result, fights) ==
    IF fights = <<>> THEN result
    ELSE FoldFights(ScoreFight(result, Head(fights)), Tail(fights))

\* StrategyGuide::points_scored : fold from MatchResult::default()
points_scored(guide) == FoldFights([opponent |-> 0, me |-> 0], guide)

(***************************************************************************)
(* day2: main                                                               *)
(***************************************************************************)
InitDay2 ==
    /\ Idle1
    /\ Idle3
    /\ guide_step1 = <<>>
    /\ guide_step2 = <<>>
    /\ strategy_line = <<>>
    /\ pc2 = "loop"
    /\ result_step1 = None
    /\ result_step2 = None

\* one turn of `for line in lines`; choices is the line split at " "
ReadLine2(choices) ==
    /\ pc2 = "loop"
    /\ Len(guide_step1) < MaxFights
    /\ strategy_line' = choices
    /\ IF choices = <<>>
       THEN UNCHANGED <<guide_step1, guide_step2, pc2>>
       ELSE IF Len(choices) # 2
       THEN /\ pc2' = "panic"
            /\ UNCHANGED <<guide_step1, guide_step2>>
       ELSE IF \/ Choice_from_str(choices[1]) = None
               \/ Choice_from_str(choices[2]) = None
               \/ Outcome_from_str(choices[2]) = None
       THEN /\ pc2' = "err_parse"
            /\ UNCHANGED <<guide_step1, guide_step2>>
       ELSE LET opponent == Choice_from_str(choices[1])[1]
                me_step1 == Choice_from_str(choices[2])[1]
                desired_outcome == Outcome_from_str(choices[2])[1]
                me == solve_outcome(opponent, desired_outcome)
            IN  /\ guide_step2' = Append(guide_step2, ChoiceFight(opponent, me))
                /\ guide_step1' = Append(guide_step1, ChoiceFight(opponent, me_step1))
                /\ pc2' = pc2
    /\ UNCHANGED <<result_step1, result_step2, vars1, vars3>>

\* the iterator is exhausted: the rest of main
EndOfFile2 ==
    /\ pc2 = "loop"
    /\ pc2' = "done"
    /\ strategy_line' = <<>>
    /\ result_step1' = Some(points_scored(guide_step1))
    /\ result_step2' = Some(points_scored(guide_step2))
    /\ UNCHANGED <<guide_step1, guide_step2, vars1, vars3>>

NextDay2 ==
    \/ \E choices \in Lines2 : ReadLine2(choices)
    \/ EndOfFile2

SpecDay2 == InitDay2 /\ [][NextDay2]_vars

(***************************************************************************)
(* day2: properties                                                         *)
(***************************************************************************)
\* <<a, b>> : a beats b
Beats == {<<"Rock", "Scissors">>, <<"Paper", "Rock">>, <<"Scissors", "Paper">>}

\* the value of a choice
ValueOf == [c \in Choices |-> IF c = "Rock" THEN 1 ELSE IF c = "Paper" THEN 2 ELSE 3]

\* what one fight adds to my total and to the opponent's
MeGain(f) ==
    ValueOf[f.me]
    + (IF <<f.me, f.opponent>> \in Beats THEN 6 ELSE IF f.me = f.opponent THEN 3 ELSE 0)

OpponentGain(f) ==
    ValueOf[f.opponent]
    + (IF <<f.opponent, f.me>> \in Beats THEN 6 ELSE IF f.me = f.opponent THEN 3 ELSE 0)

ExpectedResult(guide) ==
    [opponent |-> SumSeq([i \in 1..Len(guide) |-> OpponentGain(guide[i])]),
     me |-> SumSeq([i \in 1..Len(guide) |-> MeGain(guide[i])])]

CombinedGain(guide) ==
    SumSeq([i \in 1..Len(guide) |-> ValueOf[guide[i].me] + ValueOf[guide[i].opponent] + 6])

\* the guide (A,Y) (B,X) (C,Z) of the first reading
BriefGuide ==
    <<ChoiceFight("Rock", "Paper"), ChoiceFight("Paper", "Rock"),
      ChoiceFight("Scissors", "Scissors")>>

\* this turn of the loop pushed a fight
FightPushed == pc2 = "loop" /\ Len(strategy_line) = 2

\* C2: the fight main builds from opponent x and directive d with
\* x.solve_outcome(d) has outcome d, and no other choice of mine has.
C2_RoundTrip ==
    FightPushed =>
        LET x == Choice_from_str(strategy_line[1])[1]
            d == Outcome_from_str(strategy_line[2])[1]
            fight == guide_step2[Len(guide_step2)]
        IN  /\ fight.opponent = x
            /\ outcome(fight) = d
            /\ \A c \in Choices : outcome(ChoiceFight(x, c)) = d => c = fight.me

\* C2 witness: the three directives were resolved against three opponents
C2_Witness ==
    /\ FightPushed
    /\ Len(guide_step2) = 3
    /\ {guide_step2[i].opponent : i \in 1..3} = Choices
    /\ {outcome(guide_step2[i]) : i \in 1..3} = Outcomes
    /\ guide_step2 # guide_step1

\* C4: a fight is a Win exactly when the swapped fight is a Loss, a Draw
\* exactly when both choices are equal, and a Win exactly when me beats
\* opponent under Rock > Scissors, Paper > Rock, Scissors > Paper.
C4_Antisymmetric ==
    \A i \in 1..Len(guide_step1) :
        LET f == guide_step1[i]
            swapped == ChoiceFight(f.me, f.opponent)
        IN  /\ outcome(f) = "Win" <=> outcome(swapped) = "Loss"
            /\ outcome(f) = "Loss" <=> outcome(swapped) = "Win"
            /\ outcome(f) = "Draw" <=> f.me = f.opponent
            /\ outcome(f) = "Win" <=> <<f.me, f.opponent>> \in Beats

\* C4 witness: the guide holds a won fight, the same fight swapped, and a draw
C4_Witness ==
    \E i, j, k \in 1..Len(guide_step1) :
        /\ outcome(guide_step1[i]) = "Win"
        /\ guide_step1[j] = ChoiceFight(guide_step1[i].me, guide_step1[i].opponent)
        /\ outcome(guide_step1[j]) = "Loss"
        /\ outcome(guide_step1[k]) = "Draw"

\* C5: points_scored gives each side its own choice values plus 6 per fight it
\* won and 3 per draw, nothing for a fight it lost; the two totals add up to
\* the choice values plus 6 per fight; and (A,Y) (B,X) (C,Z) gives 15 and 15.
C5_PointsScored ==
    pc2 = "done" =>
        /\ result_step1 = Some(ExpectedResult(guide_step1))
        /\ result_step2 = Some(ExpectedResult(guide_step2))
        /\ result_step1[1].me + result_step1[1].opponent = CombinedGain(guide_step1)
        /\ result_step2[1].me + result_step2[1].opponent = CombinedGain(guide_step2)
        /\ guide_step1 = BriefGuide => result_step1 = Some([opponent |-> 15, me |-> 15])

\* C5 witness: the brief's guide was scored
C5_Witness ==
    /\ pc2 = "done"
    /\ guide_step1 = BriefGuide
    /\ result_step1 = Some([opponent |-> 15, me |-> 15])
    /\ result_step2 = Some([opponent |-> 15, me |-> 12])

(***************************************************************************)
(* day3: bounds, chars                                                      *)
(***************************************************************************)
\* code points of 'a', 'z', 'A', 'Z'
Char_a == 97

Char_z == 122

Char_A == 65

Char_Z == 90

\* SpecPriorities: the chars are the code points 0..MaxChar
MaxChar == 127

\* SpecRucksack: chars in the line of self, and in the lines of two and three
MaxSelfLen == 6

MaxOtherLen == 2

\* SpecDay3Main: rucksacks in the file, chars in a line
MaxRucksacks == 6

MaxLineLen3 == 2

\* The items a line of rucksack_list.txt is made of in the model
ItemChars == {Char_a, Char_Z}

(***************************************************************************)
(* day3: Priorities, Container, Rucksack, RucksackGroup                     *)
(***************************************************************************)
\* The inclusive char range lo..=hi as a Vec
CharRange(lo, hi) == [i \in 1..(hi - lo + 1) |-> lo + i - 1]

\* Mutant of Priorities_default: the two ranges are chained the other way round
Priorities_default_upper_first == CharRange(Char_A, Char_Z) \o CharRange(Char_a, Char_z)

\* <Priorities as Default>::default : ('a'..='z').chain('A'..='Z') ; 52 chars
Priorities_default == CharRange(Char_a, Char_z) \o CharRange(Char_A, Char_Z)

\* Iterator::position : Some(0-based index of the first match) or None
Position(s, c) ==
    IF \E i \in 1..Len(s) : s[i] = c
    THEN Some((CHOOSE i \in 1..Len(s) : s[i] = c /\ \A j \in 1..(i - 1) : s[j] # c) - 1)
    ELSE None

\* Priorities::priority_for_char : (pos + 1) as u8, or the panic of expect()
priority_for_char(self, c) ==
    LET pos == Position(self, c)
    IN  IF pos = None THEN [panic |-> TRUE, value |-> 0]
        ELSE [panic |-> FALSE, value |-> (pos[1] + 1) % 256]

\* Container::cumulated_priorities : Some(sum), or None when a char panics
cumulated_priorities(self, prio) ==
    IF \E i \in 1..Len(self) : priority_for_char(prio, self[i]).panic
    THEN None
    ELSE Some(SumSeq([i \in 1..Len(self) |-> priority_for_char(prio, self[i]).value]))

\* Rucksack::new_from_str : Some(rucksack), or None for the Err of an odd length
new_from_str(s) ==
    IF Len(s) % 2 # 0 THEN None
    ELSE Some([c1 |-> SubSeq(s, 1, Len(s) \div 2),
               c2 |-> SubSeq(s, Len(s) \div 2 + 1, Len(s))])

\* Rucksack::to_string
to_string(self) == self.c1 \o self.c2

\* Vec::contains
Contains(s, c) == \E i \in 1..Len(s) : s[i] = c

\* Iterator::filter(|c| vecs[1].contains(c) && ... ).collect()
RECURSIVE Filter(_, _)
Filter(s, vecs) ==
    IF s = <<>> THEN <<>>
    ELSE IF \A k \in 1..Len(vecs) : Contains(vecs[k], Head(s))
    THEN <<Head(s)>> \o Filter(Tail(s), vecs)
    ELSE Filter(Tail(s), vecs)

\* Vec::dedup : removes CONSECUTIVE repeated elements
RECURSIVE Dedup(_)
Dedup(s) ==
    IF Len(s) < 2 THEN s
    ELSE IF s[1] = s[2] THEN Dedup(Tail(s))
    ELSE <<s[1]>> \o Dedup(Tail(s))

\* Rucksack::common_items
common_items(self) ==
    LET c2_chars == self.c2
        common_chars == Filter(self.c1, <<c2_chars>>)
    IN  Dedup(common_chars)

\* Mutant of common_items_with_group: the filter forgets the third rucksack
common_items_with_two(self, two, three) ==
    LET one_str == to_string(self)
        two_chars == to_string(two)
        common == Filter(one_str, <<two_chars>>)
    IN  Dedup(common)

\* Rucksack::common_items_with_group
common_items_with_group(self, two, three) ==
    LET one_str == to_string(self)
        two_chars == to_string(two)
        three_chars == to_string(three)
        common == Filter(one_str, <<two_chars, three_chars>>)
    IN  Dedup(common)

\* Sum of a Vec of Option<u64>: None when a summand panicked
SumOptions(s) ==
    IF \E i \in 1..Len(s) : s[i] = None THEN None
    ELSE Some(SumSeq([i \in 1..Len(s) |-> s[i][1]]))

\* RucksackGroup::cumulated_priority_sum
cumulated_priority_sum(self, prio) ==
    SumOptions([i \in 1..Len(self) |-> cumulated_priorities(common_items(self[i]), prio)])

\* slice::chunks_exact(n) : the leading chunks of exactly n elements
RECURSIVE ChunksExact(_, _)
ChunksExact(s, n) ==
    IF Len(s) < n THEN <<>>
    ELSE <<SubSeq(s, 1, n)>> \o ChunksExact(SubSeq(s, n + 1, Len(s)), n)

\* slice::chunks(n) : as chunks_exact, and the shorter remainder as a last chunk
RECURSIVE Chunks(_, _)
Chunks(s, n) ==
    IF s = <<>> THEN <<>>
    ELSE IF Len(s) < n THEN <<s>>
    ELSE <<SubSeq(s, 1, n)>> \o Chunks(SubSeq(s, n + 1, Len(s)), n)

\* Mutant of group_badge_priority_sum: chunks(3), a shorter last chunk being
\* completed with its own last rucksack
group_badge_priority_sum_partial(self, prio) ==
    LET chunks == Chunks(self, 3)
        at(rucksacks, i) == rucksacks[IF i <= Len(rucksacks) THEN i ELSE Len(rucksacks)]
    IN  SumOptions([k \in 1..Len(chunks) |->
            cumulated_priorities(
                common_items_with_group(at(chunks[k], 1), at(chunks[k], 2), at(chunks[k], 3)),
                prio)])

\* RucksackGroup::group_badge_priority_sum
group_badge_priority_sum(self, prio) ==
    LET chunks == ChunksExact(self, 3)
    IN  SumOptions([k \in 1..Len(chunks) |->
            LET rucksacks == chunks[k]
                a == rucksacks[1]
                b == rucksacks[2]
                c == rucksacks[3]
            IN  cumulated_priorities(common_items_with_group(a, b, c), prio)])

(***************************************************************************)
(* day3: Priorities as its callers use it                                   *)
(***************************************************************************)
InitPriorities ==
    /\ Idle1
    /\ Idle2
    /\ priorities = Some(Priorities_default)
    /\ ch \in 0..MaxChar
    /\ priority = None
    /\ lines3 = <<>>
    /\ trio = <<>>
    /\ overlap = None
    /\ badge = None
    /\ rucksack_group = <<>>
    /\ step1 = None
    /\ step2 = None
    /\ pc3 = "priorities"

CallPriorityForChar ==
    /\ pc3 = "priorities"
    /\ pc3' = "priority"
    /\ priority' = Some(priority_for_char(priorities[1], ch))
    /\ UNCHANGED <<priorities, ch, lines3, trio, overlap, badge, rucksack_group,
                   step1, step2, vars1, vars2>>

NextPriorities == CallPriorityForChar

SpecPriorities == InitPriorities /\ [][NextPriorities]_vars

(***************************************************************************)
(* day3: three rucksacks as their callers use them                          *)
(***************************************************************************)
InitRucksack ==
    /\ Idle1
    /\ Idle2
    /\ priorities = None
    /\ ch = 0
    /\ priority = None
    /\ \E s \in SeqsUpTo(ItemChars, MaxSelfLen) :
       \E t, u \in SeqsUpTo(ItemChars, MaxOtherLen) : lines3 = <<s, t, u>>
    /\ trio = <<>>
    /\ overlap = None
    /\ badge = None
    /\ rucksack_group = <<>>
    /\ step1 = None
    /\ step2 = None
    /\ pc3 = "new"

\* Rucksack::new_from_str(line)? for the three lines
NewFromStr ==
    /\ pc3 = "new"
    /\ IF \E i \in 1..3 : new_from_str(lines3[i]) = None
       THEN /\ pc3' = "err_odd"
            /\ trio' = trio
       ELSE /\ pc3' = "built"
            /\ trio' = [i \in 1..3 |-> new_from_str(lines3[i])[1]]
    /\ UNCHANGED <<priorities, ch, priority, lines3, overlap, badge, rucksack_group,
                   step1, step2, vars1, vars2>>

CallCommonItems ==
    /\ pc3 = "built"
    /\ pc3' = "common"
    /\ overlap' = Some(common_items(trio[1]))
    /\ UNCHANGED <<priorities, ch, priority, lines3, trio, badge, rucksack_group,
                   step1, step2, vars1, vars2>>

CallCommonItemsWithGroup ==
    /\ pc3 = "common"
    /\ pc3' = "badge"
    /\ badge' = Some(common_items_with_group(trio[1], trio[2], trio[3]))
    /\ UNCHANGED <<priorities, ch, priority, lines3, trio, overlap, rucksack_group,
                   step1, step2, vars1, vars2>>

NextRucksack ==
    \/ NewFromStr
    \/ CallCommonItems
    \/ CallCommonItemsWithGroup

SpecRucksack == InitRucksack /\ [][NextRucksack]_vars

(***************************************************************************)
(* day3: main                                                               *)
(***************************************************************************)
InitDay3Main ==
    /\ Idle1
    /\ Idle2
    /\ priorities = None
    /\ ch = 0
    /\ priority = None
    /\ lines3 = <<>>
    /\ trio = <<>>
    /\ overlap = None
    /\ badge = None
    /\ rucksack_group = <<>>
    /\ step1 = None
    /\ step2 = None
    /\ pc3 = "loop"

\* one turn of `for line in lines`
ReadLine3(rucksack_line) ==
    /\ pc3 = "loop"
    /\ Len(rucksack_group) < MaxRucksacks
    /\ IF rucksack_line = <<>>
       THEN UNCHANGED <<rucksack_group, pc3>>
       ELSE IF new_from_str(rucksack_line) = None
       THEN /\ pc3' = "err_odd"
            /\ UNCHANGED rucksack_group
       ELSE /\ rucksack_group' = Append(rucksack_group, new_from_str(rucksack_line)[1])
            /\ pc3' = pc3
    /\ UNCHANGED <<priorities, ch, priority, lines3, trio, overlap, badge,
                   step1, step2, vars1, vars2>>

\* the iterator is exhausted: the rest of main
EndOfFile3 ==
    /\ pc3 = "loop"
    /\ priorities' = Some(Priorities_default)
    /\ step1' = cumulated_priority_sum(rucksack_group, priorities'[1])
    /\ step2' = IF step1' = None THEN None
                ELSE group_badge_priority_sum(rucksack_group, priorities'[1])
    /\ pc3' = IF step1' = None \/ step2' = None THEN "panic" ELSE "done"
    /\ UNCHANGED <<ch, priority, lines3, trio, overlap, badge, rucksack_group,
                   vars1, vars2>>

NextDay3Main ==
    \/ \E rucksack_line \in SeqsUpTo(ItemChars, MaxLineLen3) : ReadLine3(rucksack_line)
    \/ EndOfFile3

SpecDay3Main == InitDay3Main /\ [][NextDay3Main]_vars

(***************************************************************************)
(* day3: properties                                                         *)
(***************************************************************************)
LowerCase == Char_a..Char_z

UpperCase == Char_A..Char_Z

Letters == LowerCase \cup UpperCase

Rank(v) == [panic |-> FALSE, value |-> v]

\* the symbols of a sequence
Elems(s) == {s[i] : i \in 1..Len(s)}

\* no element of s occurs twice
NoRepeat(s) == \A i, j \in 1..Len(s) : s[i] = s[j] => i = j

\* 1-based index of the first occurrence of c in s
FirstIndex(s, c) == CHOOSE i \in 1..Len(s) : s[i] = c /\ \A j \in 1..(i - 1) : s[j] # c

\* the symbols of result are first met in the order in which first meets them
InOrderOf(result, first) ==
    \A x, y \in Elems(result) :
        FirstIndex(result, x) < FirstIndex(result, y)
            <=> FirstIndex(first, x) < FirstIndex(first, y)

\* C1: the Container returned by common_items and by common_items_with_group
\* holds each common symbol exactly once, however often and wherever the
\* symbol repeats in the first range.
C1_EachCommonSymbolOnce ==
    /\ pc3 \in {"common", "badge"} => NoRepeat(overlap[1])
    /\ pc3 = "badge" => NoRepeat(badge[1])

\* C6: a symbol is in the result exactly when it is in every range, and the
\* symbols of the result come in the order of their first occurrence in the
\* first range (compartment 1; the first rucksack's whole contents).
C6_CommonToEveryRange ==
    /\ pc3 \in {"common", "badge"} =>
        /\ Elems(overlap[1]) = Elems(trio[1].c1) \cap Elems(trio[1].c2)
        /\ InOrderOf(overlap[1], trio[1].c1)
    /\ pc3 = "badge" =>
        /\ Elems(badge[1]) =
              Elems(trio[1].c1 \o trio[1].c2)
              \cap Elems(trio[2].c1 \o trio[2].c2)
              \cap Elems(trio[3].c1 \o trio[3].c2)
        /\ InOrderOf(badge[1], trio[1].c1 \o trio[1].c2)

\* C6 witness: the compartments share both items, 'Z' met first; the badge is
\* 'a' alone, because 'Z' is in the first two rucksacks but not in the third
C6_Witness ==
    /\ pc3 = "badge"
    /\ Len(overlap[1]) >= 2
    /\ overlap[1][1] = Char_Z
    /\ overlap[1][2] = Char_a
    /\ FirstIndex(trio[1].c1, Char_Z) < FirstIndex(trio[1].c1, Char_a)
    /\ badge[1] = <<Char_a>>
    /\ Char_Z \in Elems(trio[2].c1 \o trio[2].c2)
    /\ Char_Z \notin Elems(trio[3].c1 \o trio[3].c2)

\* C7: priority_for_char over Priorities::default maps a..z to 1..26 and A..Z
\* to 27..52 in order, is one-to-one on the 52 letters and onto 1..52, and
\* fails (panics) for every other char.
C7_PriorityBijection ==
    /\ priorities # None =>
        /\ \A r \in 1..52 : \E c \in Letters : priority_for_char(priorities[1], c) = Rank(r)
        /\ \A c, d \in Letters :
             c # d => priority_for_char(priorities[1], c) # priority_for_char(priorities[1], d)
    /\ pc3 = "priority" =>
        priority = Some(IF ch \in LowerCase THEN Rank(ch - Char_a + 1)
                        ELSE IF ch \in UpperCase THEN Rank(ch - Char_A + 27)
                        ELSE [panic |-> TRUE, value |-> 0])

\* C7 witness: 'Z' was looked up and has rank 52
C7_Witness ==
    /\ pc3 = "priority"
    /\ ch = Char_Z
    /\ priority = Some(Rank(52))

\* priority of the badge of three rucksacks
BadgePriority(a, b, c, prio) ==
    cumulated_priorities(common_items_with_group(a, b, c), prio)[1]

\* C10: group_badge_priority_sum is the sum of the badge priorities of the
\* consecutive chunks of three; the last n mod 3 rucksacks add nothing, so the
\* value is that of the first 3 * (n div 3) rucksacks, and 0 when n < 3.
C10_RemainderDropped ==
    pc3 = "done" =>
        LET n == Len(rucksack_group)
            whole == SubSeq(rucksack_group, 1, 3 * (n \div 3))
        IN  /\ step2 = Some(SumSeq([k \in 1..(n \div 3) |->
                          BadgePriority(rucksack_group[3 * k - 2], rucksack_group[3 * k - 1],
                                        rucksack_group[3 * k], priorities[1])]))
            /\ step2 = group_badge_priority_sum(whole, priorities[1])
            /\ n < 3 => step2 = Some(0)

\* C10 witness: five rucksacks, the first three with a badge; the two left
\* over share an item, which a partial chunk would have counted
C10_Witness ==
    /\ pc3 = "done"
    /\ Len(rucksack_group) = 5
    /\ step2 # None
    /\ step2[1] > 0
    /\ Elems(to_string(rucksack_group[4])) \cap Elems(to_string(rucksack_group[5])) # {}

====
